---- MODULE Spec2Model ----
(***************************************************************************)
(* Customer-service agent callbacks (shared_libraries/callbacks): the      *)
(* per-session rate limiter rateLimitCallback, the tool guards beforeTool  *)
(* / afterTool, the bootstrap hook beforeAgent, and the mock tool          *)
(* functions the guards decide about.                                      *)
(*                                                                         *)
(* Time is the wall clock in whole seconds (Date.now() / 1000).  Strings   *)
(* are sequences of one-character strings, so that toLowerCase and string  *)
(* interpolation are computed and not assumed.  A JavaScript value is a    *)
(* record whose single field names its type.                               *)
(***************************************************************************)
EXTENDS Integers, Sequences, FiniteSets, TLC

VARIABLES
    now,      \* the wall clock, in seconds
    state,    \* state[s]: the key-value session state of session s
    pc,       \* pc[s]: "absent", "idle" or "sleeping" (inside the await of rateLimitCallback)
    rl,       \* rl[s]: locals of the rateLimitCallback call in flight and a record of the last call
    probe,    \* observer of one rolling interval of RATE_LIMIT_SECS seconds
    horizon,  \* no rateLimitCallback call starts after this clock value
    call,     \* call[s]: the tool dispatch of session s, from beforeTool to afterTool
    norm,     \* a value handed to lowercaseValue, and what repeated calls make of it
    boot      \* boot[s]: observer of the first agent turns of session s

vars == <<now, state, pc, rl, probe, horizon, call, norm, boot>>

\* ------------------------------------------------------------------ bounds

\* The clock value at which a session is created (Date.now() is positive).
EpochStart == 1
\* No rateLimitCallback call starts after this clock value.
MaxNow == 125
\* The same where the observer of a rolling interval is switched on.
MaxNowWindow == 64
\* The longest string of letters and digits among the tool-call inputs.
MaxStrLen == 1
\* The largest discount value among the tool-call inputs.
MaxDiscount == 21

\* Lists of an argument tree hold at most MaxListLen elements.
MaxListLen == 2

\* In a session with all four callbacks at work, no rateLimitCallback call
\* starts after the clock value MaxNowSession.
MaxNowSession == 2

\* The agent turns of a session that are observed.
MaxTurns == 2

\* Where the calls of a session may overlap, no rateLimitCallback call starts
\* after this clock value.
MaxNowOverlap == 64

\* With two sessions, no rateLimitCallback call starts after this clock value.
MaxNowPair == 3

\* lowercaseValue is applied to a value up to MaxApplications times in a row.
MaxApplications == 2

\* ------------------------------------------------------- program constants

RATE_LIMIT_SECS == 60
RPM_QUOTA == 10

\* ------------------------------------------------------------ session state

Sessions == {"s1", "s2"}

Undefined == [undefined |-> TRUE]

EmptyState == [k \in {} |-> 0]

Has(st, key) == key \in DOMAIN st

Get(st, key) == IF key \in DOMAIN st THEN st[key] ELSE Undefined

Set(st, key, value) ==
    [k \in DOMAIN st \cup {key} |-> IF k = key THEN value ELSE st[k]]

\* state.get<number>(key) || dflt : undefined and 0 are falsy.
GetNumberOr(st, key, dflt) ==
    IF Has(st, key) /\ st[key] # 0 THEN st[key] ELSE dflt

\* ------------------------------------------------------------- LLM requests

EmptyString == <<>>

\* The requests a model call may carry: no request object, a request without
\* contents, and a request with a content without parts and a content whose
\* parts are an empty text, a non-empty text and a part that is no text.
RequestMissing == Undefined

RequestNoContents == [model |-> "gemini-2.5-flash"]

RequestWithParts ==
    [contents |->
        << [role |-> "user"],
           [parts |-> << [text |-> EmptyString],
                         [text |-> <<"h", "i">>],
                         [inlineData |-> "image/png"] >>] >>]

Requests == {RequestMissing, RequestNoContents, RequestWithParts}

\* !llmRequest || !llmRequest.contents
LacksContents(req) == req = Undefined \/ ~("contents" \in DOMAIN req)

\* A rewrite that blanks every text part.
RewritePart_Blank(part) ==
    IF "text" \in DOMAIN part THEN [part EXCEPT !.text = <<" ">>] ELSE part

\* if ('text' in part && part.text === '') part.text = ' '
RewritePart(part) ==
    IF "text" \in DOMAIN part /\ part.text = EmptyString
    THEN [part EXCEPT !.text = <<" ">>]
    ELSE part

RewriteContent(content) ==
    IF "parts" \in DOMAIN content
    THEN [content EXCEPT !.parts = [i \in DOMAIN content.parts |-> RewritePart(content.parts[i])]]
    ELSE content

\* The loop over llmRequest.contents: every empty text part becomes " ".
RewriteEmptyText(req) ==
    [req EXCEPT !.contents = [i \in DOMAIN req.contents |-> RewriteContent(req.contents[i])]]

\* ------------------------------------------------------------------- values

\* A JavaScript value: one field, named by the value's type.
Str(s) == [str |-> s]

Num(n) == [num |-> n]

Bool(b) == [bool |-> b]

List(l) == [list |-> l]

Map(f) == [map |-> f]

Null == [null |-> TRUE]

NaN == [nan |-> TRUE]

IsStr(v) == "str" \in DOMAIN v

IsNum(v) == "num" \in DOMAIN v

IsBool(v) == "bool" \in DOMAIN v

IsList(v) == "list" \in DOMAIN v

IsMap(v) == "map" \in DOMAIN v

\* undefined, null, NaN, false, 0 and "" are falsy.
Falsy(v) ==
    \/ v \in {Undefined, Null, NaN, Bool(FALSE), Num(0), Str(EmptyString)}
    \/ "raw" \in DOMAIN v /\ v.raw = EmptyString

Upper ==
    << "A", "B", "C", "D", "E", "F", "G", "H", "I", "J", "K", "L", "M",
       "N", "O", "P", "Q", "R", "S", "T", "U", "V", "W", "X", "Y", "Z" >>

Lower ==
    << "a", "b", "c", "d", "e", "f", "g", "h", "i", "j", "k", "l", "m",
       "n", "o", "p", "q", "r", "s", "t", "u", "v", "w", "x", "y", "z" >>

LowerChar(c) ==
    IF \E i \in DOMAIN Upper : Upper[i] = c
    THEN Lower[CHOOSE i \in DOMAIN Upper : Upper[i] = c]
    ELSE c

\* String.prototype.toLowerCase
toLowerCase(s) == IF s = <<>> THEN <<>> ELSE [i \in 1..Len(s) |-> LowerChar(s[i])]

Digits == << "0", "1", "2", "3", "4", "5", "6", "7", "8", "9" >>

IsDigit(c) == \E i \in DOMAIN Digits : Digits[i] = c

DigitValue(c) == (CHOOSE i \in DOMAIN Digits : Digits[i] = c) - 1

RECURSIVE DecimalValue(_)
DecimalValue(s) ==
    IF s = <<>> THEN 0
    ELSE 10 * DecimalValue(SubSeq(s, 1, Len(s) - 1)) + DigitValue(s[Len(s)])

\* Number(v), for the values of the model: a string of digits is its decimal
\* value, "" is 0, a string with a letter is NaN.
ToNumber(v) ==
    IF IsNum(v) THEN v
    ELSE IF IsStr(v)
         THEN IF \A i \in DOMAIN v.str : IsDigit(v.str[i])
              THEN Num(DecimalValue(v.str))
              ELSE NaN
    ELSE IF IsBool(v) THEN Num(IF v.bool THEN 1 ELSE 0)
    ELSE IF v = Null THEN Num(0)
    ELSE NaN

\* v <= n and v > n of JavaScript: false when v is not a number.
NumberLeq(v, n) == IsNum(ToNumber(v)) /\ ToNumber(v).num <= n

NumberGt(v, n) == IsNum(ToNumber(v)) /\ ToNumber(v).num > n

\* `${v}` : the characters a value contributes to a template string.
ToText(v) == IF IsStr(v) THEN v.str ELSE IF v = Null THEN <<"null">> ELSE <<"undefined">>

\* args[key], undefined when the key is absent.
Arg(args, key) == IF key \in DOMAIN args THEN args[key] ELSE Undefined

\* Make dictionary values lowercase recursively.
\* newDict[k] = v on an object literal: the key "__proto__" is the accessor
\* of Object.prototype, an assignment to it sets (or, for a value that is no
\* object, leaves) the prototype of newDict and creates no property of its own.
ProtoKey == "__proto__"

AssignedKeys(keys) == keys \ {ProtoKey}

RECURSIVE lowercaseValue(_)
lowercaseValue(value) ==
    IF IsMap(value)
    THEN Map([k \in AssignedKeys(DOMAIN value.map) |-> lowercaseValue(value.map[k])])
    ELSE IF IsStr(value)
         THEN Str(toLowerCase(value.str))
    ELSE IF IsList(value)
         THEN List(IF value.list = <<>> THEN <<>>
                   ELSE [i \in 1..Len(value.list) |-> lowercaseValue(value.list[i])])
    ELSE value

\* --------------------------------------------------------- customer profile

\* A stored string is the JSON text of a document or a text that is no JSON.
JsonText(doc) == [json |-> doc]

RawText(chars) == [raw |-> chars]

\* JSON.stringify of an object: properties whose value is undefined are left out.
JsonStringify(v) ==
    IF IsMap(v)
    THEN JsonText(Map([k \in {x \in DOMAIN v.map : v.map[x] # Undefined} |-> v.map[k]]))
    ELSE JsonText(v)

\* JSON.parse: the document, or a SyntaxError.
JsonParse(text) ==
    IF "json" \in DOMAIN text
    THEN [ok |-> TRUE, value |-> text.json]
    ELSE [ok |-> FALSE, value |-> Undefined]

CustomerFields ==
    {"account_number", "customer_id", "customer_first_name", "customer_last_name",
     "email", "phone_number", "customer_start_date", "years_as_customer",
     "billing_address", "purchase_history", "loyalty_points", "preferred_store",
     "communication_preferences", "garden_profile", "scheduled_appointments"}

\* data.<key> : a TypeError on null and undefined, undefined on a value
\* that has no such property.
PropertyThrows(data) == data \in {Null, Undefined}

Property(data, key) ==
    IF IsMap(data) /\ key \in DOMAIN data.map THEN data.map[key] ELSE Undefined

\* new Customer(data)
NewCustomer(data) ==
    Map([k \in CustomerFields |->
            IF k = "scheduled_appointments" /\ Falsy(Property(data, k))
            THEN Map(EmptyState)
            ELSE Property(data, k)])

\* Customer.toJson
toJson(customer) == JsonStringify(customer)

\* Customer.getCustomer: the dummy customer, under the id asked for.  Of its
\* data the model keeps the fields below.
getCustomer(currentCustomerId) ==
    NewCustomer(Map(
        [customer_id |-> Str(currentCustomerId),
         account_number |-> Str(<<"4", "2", "8", "7", "6", "5", "0", "9", "1">>),
         customer_first_name |-> Str(<<"A", "l", "e", "x">>),
         customer_last_name |-> Str(<<"J", "o", "h", "n", "s", "o", "n">>),
         years_as_customer |-> Num(2),
         loyalty_points |-> Num(133),
         scheduled_appointments |-> Map(EmptyState)]))

\* Another default customer.
DefaultCustomerId_Other == <<"3", "2", "1">>

\* Customer.getCustomer('123') in beforeAgent
DefaultCustomerId == <<"1", "2", "3">>

\* A bootstrap that binds the default customer on every agent turn.
beforeAgent_Rebind(st) == Set(st, "customer_profile", toJson(getCustomer(DefaultCustomerId)))

\* A bootstrap that stores the customer record itself, not its JSON text.
beforeAgent_Unserialized(st) ==
    IF ~Has(st, "customer_profile")
    THEN Set(st, "customer_profile", getCustomer(DefaultCustomerId))
    ELSE st

\* Callback before agent execution: binds the default customer when the
\* session has no profile.
beforeAgent(st) ==
    IF ~Has(st, "customer_profile")
    THEN Set(st, "customer_profile", toJson(getCustomer(DefaultCustomerId)))
    ELSE st

\* ----------------------------------------------------------- identity guard

NoProfileMessage == << "No customer profile selected. Please select a profile." >>

EmptyProfileMessage == << "Customer profile is empty." >>

ParseErrorMessage ==
    << "Customer profile couldn't be parsed. Please reload the customer data." >>

MismatchMessage(customerId, boundId) ==
    << "You cannot use the tool with customer_id " >> \o ToText(customerId)
        \o << ", only for " >> \o ToText(boundId) \o << "." >>

\* customerId === c.customer_id
StrictEquals(a, b) == a = b

\* A validation without the test for an empty profile.
validateCustomerId_NoEmptyTest(customerId, sessionState) ==
    IF ~Has(sessionState, "customer_profile")
    THEN [valid |-> FALSE, err |-> NoProfileMessage]
    ELSE LET parsed == JsonParse(Get(sessionState, "customer_profile"))
         IN  IF ~parsed.ok \/ PropertyThrows(parsed.value)
             THEN [valid |-> FALSE, err |-> ParseErrorMessage]
             ELSE LET c == NewCustomer(parsed.value)
                  IN  IF StrictEquals(customerId, c.map["customer_id"])
                      THEN [valid |-> TRUE, err |-> <<>>]
                      ELSE [valid |-> FALSE,
                            err |-> MismatchMessage(customerId, c.map["customer_id"])]

\* Validates the customer ID against the customer profile in the session state.
validateCustomerId(customerId, sessionState) ==
    IF ~Has(sessionState, "customer_profile")
    THEN [valid |-> FALSE, err |-> NoProfileMessage]
    ELSE LET profileJson == Get(sessionState, "customer_profile")
             parsed == JsonParse(profileJson)
         IN  IF Falsy(profileJson)
             THEN [valid |-> FALSE, err |-> EmptyProfileMessage]
             ELSE IF ~parsed.ok \/ PropertyThrows(parsed.value)
                  THEN [valid |-> FALSE, err |-> ParseErrorMessage]
             ELSE LET c == NewCustomer(parsed.value)
                  IN  IF StrictEquals(customerId, c.map["customer_id"])
                      THEN [valid |-> TRUE, err |-> <<>>]
                      ELSE [valid |-> FALSE,
                            err |-> MismatchMessage(customerId, c.map["customer_id"])]

\* ------------------------------------------------------------------- tools

\* The discount value up to which sync_ask_for_approval is answered by beforeTool.
AUTO_APPROVE_MAX == 10

\* The discount value above which approveDiscount rejects.
APPROVE_DISCOUNT_MAX == 10

\* The discount values above which generateQrCode refuses.
QR_PERCENTAGE_MAX == 10

QR_FIXED_MAX == 20

Tool(name, execute) == [name |-> name, execute |-> execute]

\* The tools of rootAgent, under the names they are registered with.
RegisteredTools ==
    { Tool("sendCallCompanionLink", "sendCallCompanionLink"),
      Tool("approveDiscount", "approveDiscount"),
      Tool("syncAskForApproval", "syncAskForApproval"),
      Tool("updateSalesforceCrm", "updateSalesforceCrm"),
      Tool("accessCartInformation", "accessCartInformation"),
      Tool("modifyCart", "modifyCart"),
      Tool("getProductRecommendations", "getProductRecommendations"),
      Tool("checkProductAvailability", "checkProductAvailability"),
      Tool("schedulePlantingService", "schedulePlantingService"),
      Tool("getAvailablePlantingTimes", "getAvailablePlantingTimes"),
      Tool("sendCareInstructions", "sendCareInstructions"),
      Tool("generateQrCode", "generateQrCode") }

\* The registered tools whose input schema has a customerId.
CustomerTools ==
    { tool \in RegisteredTools :
        tool.name \in {"updateSalesforceCrm", "accessCartInformation", "modifyCart",
                       "getProductRecommendations", "schedulePlantingService",
                       "sendCareInstructions", "generateQrCode"} }

\* The tools as beforeTool and afterTool name them.
CallbackTools ==
    { Tool("sync_ask_for_approval", "syncAskForApproval"),
      Tool("approve_discount", "approveDiscount"),
      Tool("modify_cart", "modifyCart") }

Tools == RegisteredTools \cup CallbackTools

\* Canned results of beforeTool.
ApprovedWithoutManager ==
    [status |-> "approved",
     message |-> "You can approve this discount; no manager needed."]

CartConfirmation == [result |-> "I have added and removed the requested items."]

\* An auto-approval that stops short of the limit.
AutoApprovable_Below(amount) == amount # Undefined /\ NumberLeq(amount, AUTO_APPROVE_MAX - 1)

\* amount !== undefined && Number(amount) <= 10
AutoApprovable(amount) == amount # Undefined /\ NumberLeq(amount, AUTO_APPROVE_MAX)

\* A test that is content with one of the two flags.
BothCartFlags_Either(args) ==
    Arg(args, "items_added") = Bool(TRUE) \/ Arg(args, "items_removed") = Bool(TRUE)

\* args['items_added'] === true && args['items_removed'] === true
BothCartFlags(args) ==
    Arg(args, "items_added") = Bool(TRUE) /\ Arg(args, "items_removed") = Bool(TRUE)

\* A guard that validates args['customer_id'] whether the key is there or not.
GuardCustomerId_Always(args, sessionState) ==
    LET verdict == validateCustomerId(Arg(args, "customer_id"), sessionState)
    IN  IF ~verdict.valid /\ verdict.err # <<>>
        THEN [error |-> verdict.err]
        ELSE Undefined

\* The identity guard of beforeTool: the error payload, or undefined.
GuardCustomerId(args, sessionState) ==
    IF "customer_id" \in DOMAIN args
    THEN LET verdict == validateCustomerId(args["customer_id"], sessionState)
         IN  IF ~verdict.valid /\ verdict.err # <<>>
             THEN [error |-> verdict.err]
             ELSE Undefined
    ELSE Undefined

\* The short-circuit rules of beforeTool: a canned result, or undefined.
ShortCircuit(tool, args) ==
    IF tool.name = "sync_ask_for_approval" /\ AutoApprovable(Arg(args, "value"))
    THEN ApprovedWithoutManager
    ELSE IF tool.name = "modify_cart" /\ BothCartFlags(args)
         THEN CartConfirmation
    ELSE Undefined

\* "Mutate args in place": every own key is deleted, then the lowercased
\* entries are assigned.
AssignLowercased(args, lowercasedArgs) ==
    LET emptied == [k \in DOMAIN args \ DOMAIN args |-> args[k]]
    IN  [k \in DOMAIN emptied \cup DOMAIN lowercasedArgs |->
            IF k \in DOMAIN lowercasedArgs THEN lowercasedArgs[k] ELSE emptied[k]]

\* A decision that looks at the short-circuit rules before the guard.
Decide_ShortCircuitFirst(tool, args, sessionState) ==
    IF ShortCircuit(tool, args) # Undefined
    THEN ShortCircuit(tool, args)
    ELSE GuardCustomerId(args, sessionState)

\* The decision of beforeTool on the lowercased arguments: the guard first.
Decide(tool, args, sessionState) ==
    IF GuardCustomerId(args, sessionState) # Undefined
    THEN GuardCustomerId(args, sessionState)
    ELSE ShortCircuit(tool, args)

\* Callback before tool execution: the arguments as it leaves them and the
\* result it returns (undefined: the tool runs).
beforeTool(tool, args, sessionState) ==
    LET lowercasedArgs == lowercaseValue(Map(args)).map
        live == AssignLowercased(args, lowercasedArgs)
    IN  [args |-> live, result |-> Decide(tool, live, sessionState)]

\* Callback after tool execution: whether it takes an "Applying discount to
\* the cart" branch, and what it returns.
AppliesDiscount(tool, toolResponse) ==
    \/ tool.name = "sync_ask_for_approval"
          /\ "status" \in DOMAIN toolResponse /\ toolResponse.status = "approved"
    \/ tool.name = "approve_discount"
          /\ "status" \in DOMAIN toolResponse /\ toolResponse.status = "ok"

\* A post-hook that answers for the tool when it applies a discount.
afterTool_Override(tool, args, toolResponse) ==
    IF AppliesDiscount(tool, toolResponse) THEN [status |-> "applied"] ELSE Undefined

afterTool(tool, args, toolResponse) == Undefined

\* ---------------------------------------------------------- tool functions

Percentage == << "p", "e", "r", "c", "e", "n", "t", "a", "g", "e" >>

Fixed == << "f", "i", "x", "e", "d" >>

Petunias == << "p", "e", "t", "u", "n", "i", "a", "s" >>

approveDiscount(args) ==
    IF NumberGt(Arg(args, "value"), APPROVE_DISCOUNT_MAX)
    THEN [status |-> "rejected", message |-> "discount too large. Must be 10 or less."]
    ELSE [status |-> "ok"]

syncAskForApproval(args) == [status |-> "approved"]

modifyCart(args) ==
    [status |-> "success", message |-> "Cart updated successfully.",
     items_added |-> TRUE, items_removed |-> TRUE]

accessCartInformation(args) ==
    [items |-> << [product_id |-> "soil-123", name |-> "Standard Potting Soil", quantity |-> 1],
                  [product_id |-> "fert-456", name |-> "General Purpose Fertilizer", quantity |-> 1] >>,
     subtotal |-> "25.98"]

getProductRecommendations(args) ==
    IF IsStr(Arg(args, "plantType")) /\ toLowerCase(Arg(args, "plantType").str) = Petunias
    THEN [recommendations |-> << "soil-456", "fert-789" >>]
    ELSE [recommendations |-> << "soil-123", "fert-456" >>]

generateQrCode(args) ==
    LET discountType == Arg(args, "discountType")
        discountValue == Arg(args, "discountValue")
    IN  IF discountType \in {Str(EmptyString), Str(Percentage)}
              /\ NumberGt(discountValue, QR_PERCENTAGE_MAX)
        THEN [string |-> "cannot generate a QR code for this amount, must be 10% or less"]
        ELSE IF discountType = Str(Fixed) /\ NumberGt(discountValue, QR_FIXED_MAX)
             THEN [string |-> "cannot generate a QR code for this amount, must be 20 or less"]
        ELSE [status |-> "success", qr_code_data |-> "MOCK_QR_CODE_DATA",
              expiration_days |-> Arg(args, "expirationDays")]

\* The function of a tool applied to the arguments beforeTool left.
Execute(tool, args) ==
    CASE tool.execute = "approveDiscount" -> approveDiscount(args)
      [] tool.execute = "syncAskForApproval" -> syncAskForApproval(args)
      [] tool.execute = "modifyCart" -> modifyCart(args)
      [] tool.execute = "accessCartInformation" -> accessCartInformation(args)
      [] tool.execute = "getProductRecommendations" -> getProductRecommendations(args)
      [] tool.execute = "generateQrCode" -> generateQrCode(args)
      [] tool.execute = "sendCallCompanionLink" ->
            [status |-> "success", message |-> << "Link sent to " >> \o ToText(Arg(args, "phoneNumber"))]
      [] tool.execute = "updateSalesforceCrm" ->
            [status |-> "success", message |-> "Salesforce record updated."]
      [] tool.execute = "checkProductAvailability" ->
            [available |-> TRUE, quantity |-> 10, store |-> Arg(args, "storeId")]
      [] tool.execute = "schedulePlantingService" ->
            [status |-> "success", date |-> Arg(args, "date"), time |-> Arg(args, "timeRange")]
      [] tool.execute = "getAvailablePlantingTimes" ->
            [times |-> << "9-12", "13-16" >>]
      [] tool.execute = "sendCareInstructions" ->
            [status |-> "success",
             message |-> << "Care instructions for " >> \o ToText(Arg(args, "plantType"))
                            \o << " sent via " >> \o ToText(Arg(args, "deliveryMethod")) \o << "." >>]

\* ------------------------------------------------------ tool-call inputs

\* Strings are built of a digit, a lowercase and an uppercase letter.
Chars == {"1", "a", "A"}

RECURSIVE StringsOfLen(_)
StringsOfLen(n) ==
    IF n = 0 THEN {<<>>}
    ELSE {Append(s, c) : s \in StringsOfLen(n - 1), c \in Chars}

Strings == UNION {StringsOfLen(n) : n \in 0..MaxStrLen}

Id999 == <<"9", "9", "9">>

CustomerIds == Strings \cup {DefaultCustomerId, Id999}

DiscountValues == 0..MaxDiscount

\* The maps that extend a map of `bases` by `key` with a value of `values`,
\* and, with `optional`, the bases themselves.
With(bases, key, values, optional) ==
    {Set(b, key, v) : b \in bases, v \in values} \cup (IF optional THEN bases ELSE {})

SomeText == Str(<<"A", "a">>)

\* The values of a flag: the booleans, and a string that is truthy but not true.
Flags == {Bool(TRUE), Bool(FALSE), Str(<<"1">>)}

DiscountArgs(typeKey) ==
    {Set(Set(EmptyState, typeKey, Str(<<"F", "l", "a", "t">>)), "reason", SomeText)}

\* Arguments that conform to the input schema of a registered tool.
SchemaArgs(name) ==
    LET ids == {Str(id) : id \in CustomerIds}
        customer == With({EmptyState}, "customerId", ids, FALSE)
    IN  CASE name = "sendCallCompanionLink" -> {[phoneNumber |-> Str(<<"1", "1">>)]}
          [] name \in {"approveDiscount", "syncAskForApproval"} ->
                With(DiscountArgs("discountType"), "value",
                     {Num(v) : v \in DiscountValues}, FALSE)
          [] name = "updateSalesforceCrm" ->
                With(customer, "details", {Map([Note |-> SomeText, visits |-> Num(2)])}, FALSE)
          [] name = "accessCartInformation" -> customer
          [] name = "modifyCart" ->
                With(With(customer, "itemsToAdd",
                          {List(<< Map([product_id |-> Str(<<"A", "1">>), quantity |-> Num(1)]) >>)},
                          FALSE),
                     "itemsToRemove", {List(<<>>)}, FALSE)
          [] name = "getProductRecommendations" ->
                With(customer, "plantType", {Str(<<"P">> \o Tail(Petunias))}, FALSE)
          [] name = "checkProductAvailability" ->
                {[productId |-> Str(<<"A", "1">>), storeId |-> Str(<<"a">>)]}
          [] name = "schedulePlantingService" ->
                With(With(With(customer, "date", {Str(<<"1">>)}, FALSE),
                          "timeRange", {Str(<<"9", "-", "1", "2">>)}, FALSE),
                     "details", {SomeText}, FALSE)
          [] name = "getAvailablePlantingTimes" -> {[date |-> Str(<<"1">>)]}
          [] name = "sendCareInstructions" ->
                With(With(customer, "plantType", {SomeText}, FALSE),
                     "deliveryMethod", {Str(<<"s", "m", "s">>)}, FALSE)
          [] name = "generateQrCode" ->
                With(With(With(With({EmptyState}, "customerId",
                                    {Str(DefaultCustomerId), Str(Id999)}, FALSE),
                               "discountValue", {Num(v) : v \in DiscountValues}, FALSE),
                          "discountType",
                          {Str(EmptyString), Str(Percentage), Str(Fixed), SomeText}, FALSE),
                     "expirationDays", {Num(1)}, FALSE)

\* Arguments of the tools the callbacks name: the keys the callbacks read
\* (customer_id, value, items_added, items_removed), each present or absent.
CallbackArgs(name) ==
    LET ids == {Str(id) : id \in CustomerIds}
    IN  CASE name = "sync_ask_for_approval" ->
                With(With(DiscountArgs("discount_type"), "value",
                          {Num(v) : v \in DiscountValues} \cup {Str(s) : s \in Strings}
                              \cup {Null},
                          TRUE),
                     "customer_id", ids, TRUE)
          [] name = "approve_discount" ->
                With(With(DiscountArgs("discount_type"), "value",
                          {Num(v) : v \in DiscountValues}, FALSE),
                     "customer_id", {Str(DefaultCustomerId), Str(Id999)}, TRUE)
          [] name = "modify_cart" ->
                With(With(With({EmptyState}, "items_added", Flags, TRUE),
                          "items_removed", Flags, TRUE),
                     "customer_id", ids, TRUE)

\* A call of the registered modifyCart that carries, beside the arguments of
\* its schema, the flags modifyCart returns (a re-entry after the real modify).
ReentryArgs(name) ==
    IF name = "modifyCart"
    THEN {Set(Set(a, "items_added", Bool(TRUE)), "items_removed", Bool(TRUE)) :
             a \in SchemaArgs(name)}
    ELSE {}

\* A call of accessCartInformation whose arguments, as the model sent them,
\* have one more key of their own: "__proto__".
UnlistedArgs(name) ==
    IF name = "accessCartInformation"
    THEN {Set(a, ProtoKey, SomeText) : a \in SchemaArgs(name)}
    ELSE {}

ArgsOf(tool) ==
    IF tool \in RegisteredTools
    THEN SchemaArgs(tool.name) \cup ReentryArgs(tool.name) \cup UnlistedArgs(tool.name)
    ELSE CallbackArgs(tool.name)

\* What a session may hold under customer_profile when a tool is called.
StoredProfiles ==
    {RawText(EmptyString), RawText(<<"{">>), JsonText(Null), JsonText(Map(EmptyState))}
        \cup {toJson(getCustomer(id)) : id \in CustomerIds}

\* ------------------------------------------------------------ tool dispatch

NoDispatch ==
    [phase |-> "none", tool |-> Undefined, given |-> EmptyState, args |-> EmptyState,
     guard |-> "none", result |-> Undefined, executed |-> FALSE,
     response |-> Undefined, applied |-> FALSE]

\* The model asks for a tool: beforeTool runs on the live arguments.
BeforeTool(s, tool, args) ==
    /\ pc[s] = "idle"
    /\ call[s].phase = "none"
    /\ LET out == beforeTool(tool, args, state[s])
           guarded == GuardCustomerId(lowercaseValue(Map(args)).map, state[s])
       IN  call' = [call EXCEPT ![s] =
                [phase |-> "before", tool |-> tool, given |-> args, args |-> out.args,
                 guard |-> IF "customer_id" \in DOMAIN args
                           THEN (IF guarded = Undefined THEN "passed" ELSE "failed")
                           ELSE "none",
                 result |-> out.result, executed |-> FALSE,
                 response |-> out.result, applied |-> FALSE]]
    /\ UNCHANGED <<now, state, pc, rl, probe, horizon, norm, boot>>

\* beforeTool returned undefined: the tool function runs.
ExecuteTool(s) ==
    /\ call[s].phase = "before"
    /\ call[s].result = Undefined
    /\ LET c == call[s]
       IN  call' = [call EXCEPT ![s] = [c EXCEPT !.phase = "ran", !.executed = TRUE,
                                                 !.response = Execute(c.tool, c.args)]]
    /\ UNCHANGED <<now, state, pc, rl, probe, horizon, norm, boot>>

\* afterTool runs on the response, the tool's or the one beforeTool returned;
\* what it returns, when not undefined, replaces the response.
AfterTool(s) ==
    /\ \/ call[s].phase = "ran"
       \/ call[s].phase = "before" /\ call[s].result # Undefined
    /\ LET c == call[s]
           override == afterTool(c.tool, c.args, c.response)
       IN  call' = [call EXCEPT ![s] = [c EXCEPT !.phase = "done",
                        !.applied = AppliesDiscount(c.tool, c.response),
                        !.response = IF override = Undefined THEN c.response ELSE override]]
    /\ UNCHANGED <<now, state, pc, rl, probe, horizon, norm, boot>>

\* The response is handed to the model: the dispatch is over.
ReturnResponse(s) ==
    /\ call[s].phase = "done"
    /\ call' = [call EXCEPT ![s] = NoDispatch]
    /\ UNCHANGED <<now, state, pc, rl, probe, horizon, norm, boot>>

\* The observer of the agent turns of a session: off, or counting the first
\* MaxTurns calls of beforeAgent, with the state the first call found and the
\* state it left.
BootOff == [phase |-> "off", turns |-> 0, input |-> EmptyState, once |-> EmptyState]

BootOn == [phase |-> "on", turns |-> 0, input |-> EmptyState, once |-> EmptyState]

BootTurn(b, before, after) ==
    IF b.phase = "on" /\ b.turns < MaxTurns
    THEN [b EXCEPT !.turns = b.turns + 1,
                   !.input = IF b.turns = 0 THEN before ELSE b.input,
                   !.once = IF b.turns = 0 THEN after ELSE b.once]
    ELSE b

\* beforeAgent runs at the start of an agent turn.
BeforeAgent(s) ==
    /\ pc[s] = "idle"
    /\ call[s].phase = "none"
    /\ state' = [state EXCEPT ![s] = beforeAgent(state[s])]
    /\ boot' = [boot EXCEPT ![s] = BootTurn(boot[s], state[s], beforeAgent(state[s]))]
    /\ UNCHANGED <<now, pc, rl, probe, horizon, call, norm>>

\* --------------------------------------------------------- argument trees

TreeKeys == {"Key", "key", ProtoKey}

Leaves ==
    {Str(s) : s \in Strings} \cup {Num(0), Num(2), Bool(TRUE), Null, Undefined}

Nested ==
    { List(<< Str(<<"A">>) >>),
      Map([Key |-> Str(<<"A">>)]),
      Map([k \in {ProtoKey} |-> Str(<<"A">>)]),
      List(<< Map([Key |-> List(<< Str(<<"A">>), Num(2) >>)]) >>) }

ListsOf(values, n) == UNION {[1..k -> values] : k \in 0..n}

MapsOf(values) == UNION {[keys -> values] : keys \in SUBSET TreeKeys}

\* Argument trees: scalars, lists and maps of scalars and of nested trees.
Trees ==
    Leaves \cup {List(l) : l \in ListsOf(Leaves \cup Nested, MaxListLen)}
           \cup {Map(f) : f \in MapsOf(Leaves \cup Nested)}

NoNorm == [input |-> Undefined, prev |-> Undefined, output |-> Undefined, count |-> 0]

\* One more call of lowercaseValue, on the result of the last.
Normalize ==
    /\ norm.count < MaxApplications
    /\ norm' = [norm EXCEPT !.prev = norm.output,
                            !.output = lowercaseValue(norm.output),
                            !.count = norm.count + 1]
    /\ UNCHANGED <<now, state, pc, rl, probe, horizon, call, boot>>

\* ------------------------------------------------------------- rate limiter

\* A quota that stalls the request that reaches it.
OverQuota_AtQuota(requestCount) == requestCount >= RPM_QUOTA

\* requestCount > RPM_QUOTA
OverQuota(requestCount) == requestCount > RPM_QUOTA

\* A delay without the second of grace.
Delay_NoGrace(elapsedSecs) == RATE_LIMIT_SECS - elapsedSecs

\* A delay that grows with the time elapsed.
Delay_AddsElapsed(elapsedSecs) == RATE_LIMIT_SECS + elapsedSecs + 1

\* const delay = RATE_LIMIT_SECS - elapsedSecs + 1
Delay(elapsedSecs) == RATE_LIMIT_SECS - elapsedSecs + 1

\* A test that never awaits.
MustSleep_Never(delay) == FALSE

\* A test that also awaits a timer of zero seconds.
MustSleep_AlsoZero(delay) == delay >= 0

\* if (delay > 0) await new Promise(... setTimeout(resolve, delay * 1000))
MustSleep(delay) == delay > 0

\* First call of the session: timer_start = now, request_count = 1.
OpenWindow(st, t) == Set(Set(st, "timer_start", t), "request_count", 1)

\* A store that counts the request twice.
StoreCount_Twice(st, requestCount) == Set(st, "request_count", requestCount + 1)

\* A reset that leaves out the request being admitted.
ResetWindow_ToZero(st, t) == Set(Set(st, "timer_start", t), "request_count", 0)

\* "Reset timer": timer_start = Date.now() / 1000, request_count = 1.
ResetWindow(st, t) == Set(Set(st, "timer_start", t), "request_count", 1)

\* Within quota: request_count = requestCount.
StoreCount(st, requestCount) == Set(st, "request_count", requestCount)

\* A skip that counts the request in the window all the same.
Skipped_Counted(st, t) ==
    IF Has(st, "timer_start")
    THEN StoreCount(st, GetNumberOr(st, "request_count", 0) + 1)
    ELSE OpenWindow(st, t)

\* if (!llmRequest || !llmRequest.contents) return undefined: the call returns
\* before it reads the clock or the state.
Skipped(st, t) == st

\* Recorded of a call: the window's RATE_LIMIT_SECS seconds had passed when it came.
WindowExpired(elapsedSecs) == elapsedSecs > RATE_LIMIT_SECS

\* What rateLimitCallback returns in every branch.
RateLimitResult == Undefined

\* A second call of a session, begun while the first is inside its await.
NoLate == [phase |-> "none", seen |-> 0, wakeAt |-> 0]

NoCall ==
    [req |-> Undefined, branch |-> "none", delay |-> 0, expired |-> FALSE,
     start |-> 0, seen |-> 0, wakeAt |-> 0, admitted |-> 0, ret |-> Undefined,
     late |-> NoLate]

\* The observer of a rolling interval: armed at an admission of its choice, it
\* counts the admissions at clock values in [start, start + RATE_LIMIT_SECS).
ProbeOff == [phase |-> "off", start |-> 0, count |-> 0]

ProbeIdle == [phase |-> "idle", start |-> 0, count |-> 0]

ProbeDone == [phase |-> "done", start |-> 0, count |-> 0]

ProbeExpire(p, t) ==
    IF p.phase = "armed" /\ t >= p.start + RATE_LIMIT_SECS THEN ProbeDone ELSE p

\* The observer's possible values after a request is admitted at clock value t.
ProbeAdmit(p, t) ==
    CASE p.phase = "idle" -> {p, [phase |-> "armed", start |-> t, count |-> 1]}
      [] p.phase = "armed" ->
            IF t < p.start + RATE_LIMIT_SECS
            THEN {[p EXCEPT !.count = @ + 1]}
            ELSE {ProbeDone}
      [] OTHER -> {p}

\* The rate-window state a rateLimitCallback call made at clock value t leaves
\* up to its return or its await, as a function of the session's own state.
AloneCall(st, t, req) ==
    IF LacksContents(req) THEN Skipped(st, t)
    ELSE IF ~Has(st, "timer_start") THEN OpenWindow(st, t)
    ELSE IF OverQuota(GetNumberOr(st, "request_count", 0) + 1)
         THEN IF MustSleep(Delay(t - GetNumberOr(st, "timer_start", t)))
              THEN st
              ELSE ResetWindow(st, t)
    ELSE StoreCount(st, GetNumberOr(st, "request_count", 0) + 1)

\* A context that hands every call the state of one and the same session.
ContextState_Shared(s) == state["s1"]

\* callbackContext.state: the state of the session the call is made for.
ContextState(s) == state[s]

\* rateLimitCallback up to its return or, over quota with a positive delay, up
\* to the await.
RateLimitCall(s, req) ==
    /\ pc[s] = "idle"
    /\ call[s].phase = "none"
    /\ now <= horizon
    /\ IF LacksContents(req)
       THEN /\ rl' = [rl EXCEPT ![s] = [@ EXCEPT !.req = req, !.branch = "skip",
                                                 !.delay = 0, !.expired = FALSE,
                                                 !.ret = RateLimitResult]]
            /\ state' = [state EXCEPT ![s] = Skipped(ContextState(s), now)]
            /\ UNCHANGED <<pc, probe>>
       ELSE LET st == ContextState(s)
                rewritten == RewriteEmptyText(req)
            IN  IF ~Has(st, "timer_start")
                THEN /\ state' = [state EXCEPT ![s] = OpenWindow(st, now)]
                     /\ rl' = [rl EXCEPT ![s] = [@ EXCEPT !.req = rewritten, !.branch = "first",
                                                          !.delay = 0, !.expired = FALSE,
                                                          !.admitted = 1,
                                                          !.ret = RateLimitResult]]
                     /\ probe' \in ProbeAdmit(probe, now)
                     /\ UNCHANGED pc
                ELSE LET requestCount == GetNumberOr(st, "request_count", 0) + 1
                         timerStart == GetNumberOr(st, "timer_start", now)
                         elapsedSecs == now - timerStart
                         delay == Delay(elapsedSecs)
                     IN  IF OverQuota(requestCount)
                         THEN IF MustSleep(delay)
                              THEN /\ pc' = [pc EXCEPT ![s] = "sleeping"]
                                   /\ rl' = [rl EXCEPT ![s] = [@ EXCEPT !.req = rewritten,
                                                                        !.branch = "over",
                                                                        !.delay = delay,
                                                                        !.expired = WindowExpired(elapsedSecs),
                                                                        !.start = now,
                                                                        !.seen = timerStart,
                                                                        !.wakeAt = now + delay,
                                                                        !.ret = [pending |-> TRUE]]]
                                   /\ UNCHANGED <<state, probe>>
                              ELSE /\ state' = [state EXCEPT ![s] = ResetWindow(st, now)]
                                   /\ rl' = [rl EXCEPT ![s] = [@ EXCEPT !.req = rewritten,
                                                                        !.branch = "over",
                                                                        !.delay = delay,
                                                                        !.expired = WindowExpired(elapsedSecs),
                                                                        !.admitted = 1,
                                                                        !.ret = RateLimitResult]]
                                   /\ probe' \in ProbeAdmit(probe, now)
                                   /\ UNCHANGED pc
                         ELSE /\ state' = [state EXCEPT ![s] = StoreCount(st, requestCount)]
                              /\ rl' = [rl EXCEPT ![s] = [@ EXCEPT !.req = rewritten,
                                                                   !.branch = "within",
                                                                   !.delay = 0,
                                                                   !.expired = WindowExpired(elapsedSecs),
                                                                   !.admitted = @ + 1,
                                                                   !.ret = RateLimitResult]]
                              /\ probe' \in ProbeAdmit(probe, now)
                              /\ UNCHANGED pc
    /\ UNCHANGED <<now, horizon, call, norm, boot>>

\* The requests admitted since the window was opened, after the reset of a
\* call that had read timer_start = seen before its await: the reset opens a
\* window when the window the call read is still the current one, and it is
\* one more admission into a window that another call has opened since.
AdmittedAtReset(admitted, st, seen) ==
    IF Get(st, "timer_start") = seen THEN 1 ELSE admitted + 1

\* The timer of the await fires (no earlier than asked) and the call resumes:
\* the window is reset at the clock value of waking and the call returns.
Wake(s) ==
    /\ pc[s] = "sleeping"
    /\ now >= rl[s].wakeAt
    /\ state' = [state EXCEPT ![s] = ResetWindow(state[s], now)]
    /\ pc' = [pc EXCEPT ![s] = "idle"]
    /\ rl' = [rl EXCEPT ![s] = [@ EXCEPT !.start = 0, !.seen = 0, !.wakeAt = 0,
                                         !.admitted = AdmittedAtReset(@, state[s], rl[s].seen),
                                         !.ret = RateLimitResult]]
    /\ probe' \in ProbeAdmit(probe, now)
    /\ UNCHANGED <<now, horizon, call, norm, boot>>

\* rateLimitCallback is called for a session whose earlier call is still inside
\* its await: the second call runs up to its return or to its own await.
LateCall(s, req) ==
    /\ pc[s] = "sleeping"
    /\ rl[s].late.phase = "none"
    /\ now <= horizon
    /\ LET st == ContextState(s)
           requestCount == GetNumberOr(st, "request_count", 0) + 1
           timerStart == GetNumberOr(st, "timer_start", now)
           delay == Delay(now - timerStart)
           counted == ~LacksContents(req)
           opens == counted /\ (~Has(st, "timer_start") \/ OverQuota(requestCount))
           suspends == /\ counted
                       /\ Has(st, "timer_start")
                       /\ OverQuota(requestCount)
                       /\ MustSleep(delay)
       IN  /\ state' = [state EXCEPT ![s] = AloneCall(st, now, req)]
           /\ rl' = [rl EXCEPT ![s] = [@ EXCEPT
                        !.late = IF suspends
                                 THEN [phase |-> "sleeping", seen |-> timerStart,
                                       wakeAt |-> now + delay]
                                 ELSE [phase |-> "done", seen |-> 0, wakeAt |-> 0],
                        !.admitted = IF suspends \/ ~counted THEN @
                                     ELSE IF opens THEN 1
                                     ELSE @ + 1]]
    /\ UNCHANGED <<now, pc, probe, horizon, call, norm, boot>>

\* The timer of the second call fires and the call resumes: it resets the
\* window, whatever has become of the window since, and returns.
LateWake(s) ==
    /\ rl[s].late.phase = "sleeping"
    /\ now >= rl[s].late.wakeAt
    /\ state' = [state EXCEPT ![s] = ResetWindow(state[s], now)]
    /\ rl' = [rl EXCEPT ![s] = [@ EXCEPT
                 !.late = [phase |-> "done", seen |-> 0, wakeAt |-> 0],
                 !.admitted = AdmittedAtReset(@, state[s], rl[s].late.seen)]]
    /\ UNCHANGED <<now, pc, probe, horizon, call, norm, boot>>

\* The clock advances by one second.  The program first reads the clock in the
\* first rateLimitCallback call, so the clock is followed from that call on;
\* past MaxNow it runs on only until every pending timer is due.
Tick ==
    /\ \E s \in Sessions : Has(state[s], "timer_start")
    /\ \/ now < horizon
       \/ \E s \in Sessions : pc[s] = "sleeping" /\ now < rl[s].wakeAt
       \/ \E s \in Sessions : rl[s].late.phase = "sleeping" /\ now < rl[s].late.wakeAt
    /\ now' = now + 1
    /\ probe' = ProbeExpire(probe, now + 1)
    /\ UNCHANGED <<state, pc, rl, horizon, call, norm, boot>>

\* ----------------------------------------------------------- specifications

NoState == [s \in Sessions |-> EmptyState]

InitSessions(live) ==
    /\ now = EpochStart
    /\ pc = [s \in Sessions |-> IF s \in live THEN "idle" ELSE "absent"]
    /\ rl = [s \in Sessions |-> NoCall]
    /\ call = [s \in Sessions |-> NoDispatch]
    /\ norm = NoNorm
    /\ boot = [s \in Sessions |-> BootOff]

\* One session and its rate limiter.
InitRate ==
    InitSessions({"s1"}) /\ state = NoState /\ probe = ProbeOff /\ horizon = MaxNow

NextRate ==
    \/ Tick
    \/ \E s \in Sessions, req \in Requests : RateLimitCall(s, req)
    \/ \E s \in Sessions : Wake(s)

SpecRate == InitRate /\ [][NextRate]_vars

\* The same with the observer of a rolling interval switched on.
InitWindow ==
    InitSessions({"s1"}) /\ state = NoState /\ probe = ProbeIdle /\ horizon = MaxNowWindow

SpecWindow == InitWindow /\ [][NextRate]_vars

\* The timers fire and the clock runs: an await of setTimeout ends.
SpecRateFair ==
    SpecRate /\ WF_vars(Tick) /\ \A s \in Sessions : WF_vars(Wake(s))


\* A session with any stored profile or none, and its tool dispatches.
InitTool ==
    /\ InitSessions({"s1"})
    /\ probe = ProbeOff
    /\ horizon = MaxNow
    /\ \E profile \in StoredProfiles \cup {Undefined} :
          state = [NoState EXCEPT !["s1"] =
                     IF profile = Undefined THEN EmptyState
                     ELSE Set(EmptyState, "customer_profile", profile)]

NextTool ==
    \/ \E s \in Sessions : BeforeAgent(s)
    \/ \E s \in Sessions, tool \in Tools : \E args \in ArgsOf(tool) : BeforeTool(s, tool, args)
    \/ \E s \in Sessions : ExecuteTool(s)
    \/ \E s \in Sessions : AfterTool(s)
    \/ \E s \in Sessions : ReturnResponse(s)

SpecTool == InitTool /\ [][NextTool]_vars

\* A new session, whose state is empty, and its agent turns and tool dispatches.
InitNewSession ==
    /\ InitSessions({"s1"})
    /\ probe = ProbeOff
    /\ horizon = MaxNow
    /\ state = NoState

SpecNewSession == InitNewSession /\ [][NextTool]_vars

\* lowercaseValue, applied to every argument tree.
InitNormalize ==
    /\ now = EpochStart
    /\ pc = [s \in Sessions |-> "absent"]
    /\ rl = [s \in Sessions |-> NoCall]
    /\ call = [s \in Sessions |-> NoDispatch]
    /\ state = NoState
    /\ probe = ProbeOff
    /\ horizon = MaxNow
    /\ boot = [s \in Sessions |-> BootOff]
    /\ \E x \in Trees : norm = [input |-> x, prev |-> x, output |-> x, count |-> 0]

SpecNormalize == InitNormalize /\ [][Normalize]_vars

\* The arguments of a tool whose customer ids are "123" or "999", whose
\* discount values are around the approval limit and whose other values are
\* as their schema asks.
AroundLimit(args) ==
    /\ \A k \in {"customer_id", "customerId"} \cap DOMAIN args :
           args[k] \in {Str(DefaultCustomerId), Str(Id999)}
    /\ \A k \in {"value", "discountValue"} \cap DOMAIN args :
           args[k] \in {Num(AUTO_APPROVE_MAX), Num(AUTO_APPROVE_MAX + 1)}

SessionArgs(tool) == {args \in ArgsOf(tool) : AroundLimit(args)}

\* A session with any stored profile or none, in which all four callbacks of
\* rootAgent run: model calls, agent turns and tool dispatches.
InitSession ==
    /\ InitSessions({"s1"})
    /\ probe = ProbeOff
    /\ horizon = MaxNowSession
    /\ \E profile \in StoredProfiles \cup {Undefined} :
          state = [NoState EXCEPT !["s1"] =
                     IF profile = Undefined THEN EmptyState
                     ELSE Set(EmptyState, "customer_profile", profile)]

NextSession ==
    \/ NextRate
    \/ \E s \in Sessions : BeforeAgent(s)
    \/ \E s \in Sessions, tool \in Tools :
          \E args \in SessionArgs(tool) : BeforeTool(s, tool, args)
    \/ \E s \in Sessions : ExecuteTool(s)
    \/ \E s \in Sessions : AfterTool(s)
    \/ \E s \in Sessions : ReturnResponse(s)

SpecSession == InitSession /\ [][NextSession]_vars

\* The states a session may be in at an agent turn: any stored profile or
\* none, and a rate window or none.
TurnStates ==
    LET windows == {EmptyState} \cup
                       {StoreCount(OpenWindow(EmptyState, EpochStart), n) : n \in 1..RPM_QUOTA}
    IN  windows \cup {Set(w, "customer_profile", profile) :
                          w \in windows, profile \in StoredProfiles}

\* beforeAgent, run on every such state, turn after turn.
InitBootstrap ==
    /\ now = EpochStart
    /\ pc = [s \in Sessions |-> IF s = "s1" THEN "idle" ELSE "absent"]
    /\ rl = [s \in Sessions |-> NoCall]
    /\ call = [s \in Sessions |-> NoDispatch]
    /\ norm = NoNorm
    /\ probe = ProbeOff
    /\ horizon = MaxNow
    /\ boot = [s \in Sessions |-> IF s = "s1" THEN BootOn ELSE BootOff]
    /\ \E st \in TurnStates : state = [NoState EXCEPT !["s1"] = st]

NextBootstrap == \E s \in Sessions : BeforeAgent(s)

SpecBootstrap == InitBootstrap /\ [][NextBootstrap]_vars

\* The whole system: the rate limiter and the tool dispatches of one session
\* that starts with an empty state.
Init == InitRate

Next == NextRate \/ NextTool

Spec == Init /\ [][Next]_vars

\* Two sessions and their rate limiters, on one event loop and one clock: no
\* rateLimitCallback call starts after the clock value MaxNowPair.
InitPair ==
    InitSessions(Sessions) /\ state = NoState /\ probe = ProbeOff /\ horizon = MaxNowPair

SpecPair == InitPair /\ [][NextRate]_vars

\* One session whose rateLimitCallback calls may overlap: a second call may
\* begin while the first is inside its await.  No call starts after the clock
\* value MaxNowOverlap.
InitOverlap ==
    InitSessions({"s1"}) /\ state = NoState /\ probe = ProbeOff /\ horizon = MaxNowOverlap

NextOverlap ==
    \/ NextRate
    \/ \E s \in Sessions, req \in Requests : LateCall(s, req)
    \/ \E s \in Sessions : LateWake(s)

SpecOverlap == InitOverlap /\ [][NextOverlap]_vars

\* ------------------------------------------------------ rate limiter claims

Live == {s \in Sessions : pc[s] # "absent"}

TimerStart(s) == state[s]["timer_start"]

RequestCount(s) == state[s]["request_count"]

\* The rank of the next counted call of s in its window: the number of requests
\* admitted since the window was opened (by the first call or by a reset), plus one.
ArrivalRank(s) == IF Has(state[s], "timer_start") THEN rl[s].admitted + 1 ELSE 1

\* C1: every rolling interval of RATE_LIMIT_SECS seconds holds at most RPM_QUOTA
\* admitted requests of a session (the observed interval is any that starts at
\* an admission).
C1_RollingQuota == probe.count <= RPM_QUOTA

\* C2: a call that is the N-th of its window, N <= RPM_QUOTA, returns without
\* suspending the caller, whatever the time elapsed since timer_start.
C2_NoDelayWithinQuota ==
    [][\A s \in Sessions, req \in Requests :
          (RateLimitCall(s, req) /\ ArrivalRank(s) <= RPM_QUOTA)
              => (pc'[s] = "idle" /\ rl'[s].ret = Undefined)]_vars

\* C2 witness: the tenth call of a window came after the window's 60 seconds
\* had passed and returned at once, within quota.
C2_Witness ==
    \E s \in Live :
        /\ pc[s] = "idle"
        /\ rl[s].branch = "within"
        /\ rl[s].expired
        /\ rl[s].admitted = RPM_QUOTA
        /\ RequestCount(s) = RPM_QUOTA

\* C3: a call that finds request_count = RPM_QUOTA with elapsed below 61
\* seconds suspends the caller for 60 - elapsed + 1 seconds, and the call
\* returns with request_count = 1 and timer_start the clock value of waking.
C3_OverQuotaDelay ==
    [][\A s \in Sessions :
          /\ \A req \in Requests :
                ( /\ RateLimitCall(s, req)
                  /\ ~LacksContents(req)
                  /\ Has(state[s], "timer_start")
                  /\ RequestCount(s) = RPM_QUOTA
                  /\ now - TimerStart(s) < RATE_LIMIT_SECS + 1 )
                => ( /\ pc'[s] = "sleeping"
                     /\ rl'[s].wakeAt - now = RATE_LIMIT_SECS - (now - TimerStart(s)) + 1
                     /\ state'[s] = state[s] )
          /\ (pc[s] = "sleeping" /\ pc'[s] = "idle")
                => ( /\ now >= rl[s].wakeAt
                     /\ RequestCount(s)' = 1
                     /\ TimerStart(s)' = now' )]_vars

\* C3 witness: an over-quota call has slept and has just returned.
C3_Witness ==
    \E s \in Live :
        /\ pc[s] = "idle"
        /\ rl[s].branch = "over"
        /\ rl[s].delay > 0
        /\ rl[s].delay < RATE_LIMIT_SECS
        /\ RequestCount(s) = 1
        /\ TimerStart(s) = now

\* C4: the stored request_count is between 1 and RPM_QUOTA; the incremented
\* count RPM_QUOTA + 1 of an over-quota call is never written to the state.
C4_StoredCountInQuota ==
    \A s \in Sessions :
        Has(state[s], "request_count") => RequestCount(s) \in 1..RPM_QUOTA

\* C4 witness: an over-quota call (local count RPM_QUOTA + 1) has returned and
\* left request_count = 1.
C4_Witness ==
    \E s \in Live :
        /\ pc[s] = "idle"
        /\ rl[s].branch = "over"
        /\ rl[s].admitted = 1
        /\ RequestCount(s) = 1

\* C5: every call returns undefined, a suspension is asked for at most 61
\* seconds, and a suspended call resumes and returns.
C5_AlwaysAdmits ==
    /\ [](\A s \in Sessions :
            /\ pc[s] = "idle" => rl[s].ret = Undefined
            /\ pc[s] = "sleeping" =>
                  /\ rl[s].delay \in 1..(RATE_LIMIT_SECS + 1)
                  /\ rl[s].wakeAt = rl[s].start + rl[s].delay)
    /\ \A s \in Sessions : (pc[s] = "sleeping") ~> (pc[s] = "idle" /\ rl[s].ret = Undefined)

\* C5 witness: a call suspended for the longest delay, 61 seconds, has returned.
C5_Witness ==
    \E s \in Live :
        /\ pc[s] = "idle"
        /\ rl[s].branch = "over"
        /\ rl[s].delay = RATE_LIMIT_SECS + 1
        /\ rl[s].ret = Undefined

\* ------------------------------------------------------- tool guard claims

\* The customer_id of the profile stored in a session state, read off the
\* stored document; undefined when there is none.
BoundCustomerId(st) ==
    IF Has(st, "customer_profile")
    THEN LET text == st["customer_profile"]
         IN  IF "json" \in DOMAIN text /\ IsMap(text.json)
                   /\ "customer_id" \in DOMAIN text.json.map
             THEN text.json.map["customer_id"]
             ELSE Undefined
    ELSE Undefined

\* The message holds the characters of s in a row.
Names(message, s) ==
    \E i \in 1..(Len(message) - Len(s) + 1) : SubSeq(message, i, i + Len(s) - 1) = s

\* The message names the id s, as it was given or in lower case.
NamesId(message, s) == Names(message, s) \/ Names(message, toLowerCase(s))

IsErrorPayload(payload) == DOMAIN payload = {"error"}

\* A dispatch of a tool that asks for a discount approval, with a numeric value.
DiscountRequest(c) ==
    /\ c.phase # "none"
    /\ c.tool.execute \in {"syncAskForApproval", "approveDiscount"}
    /\ IsNum(Arg(c.given, "value"))

\* C6: with a profile bound to customer id c (of any letter case), a call that
\* carries customer_id = c passes the identity guard, and a call that carries
\* another id s gets an error whose message names s and c.
C6_GuardComparesIds ==
    \A s \in Sessions :
        LET c == call[s]
            bound == BoundCustomerId(state[s])
            given == Arg(c.given, "customer_id")
        IN  (c.phase # "none" /\ IsStr(given) /\ IsStr(bound))
                => IF given = bound
                   THEN ~IsErrorPayload(c.result)
                   ELSE /\ IsErrorPayload(c.result)
                        /\ NamesId(c.result.error, given.str)
                        /\ NamesId(c.result.error, bound.str)

\* C7: when the identity guard fails, beforeTool returns an {error} payload and
\* nothing else: no canned approval or cart result, and the tool does not run.
C7_GuardFailureShortCircuits ==
    \A s \in Sessions :
        LET c == call[s]
        IN  (c.phase # "none" /\ c.guard = "failed")
                => /\ IsErrorPayload(c.result)
                   /\ c.result \notin {ApprovedWithoutManager, CartConfirmation}
                   /\ ~c.executed
                   /\ c.response = c.result

\* C7 witness: a sync_ask_for_approval call with value <= 10 whose guard
\* failed has gone through the dispatch.
C7_Witness ==
    \E s \in Live :
        LET c == call[s]
        IN  /\ c.phase = "done"
            /\ c.guard = "failed"
            /\ c.tool.name = "sync_ask_for_approval"
            /\ IsNum(Arg(c.given, "value"))
            /\ c.given["value"].num <= 10

\* C8: a schema-conforming call of a registered tool that takes a customer
\* identifier, with an identifier other than the bound profile's, is rejected
\* by beforeTool with an error payload and the tool function does not run.
C8_RegisteredToolsGuarded ==
    \A s \in Sessions :
        LET c == call[s]
            bound == BoundCustomerId(state[s])
        IN  (c.phase # "none" /\ c.tool \in CustomerTools /\ IsStr(bound)
                /\ c.given["customerId"] # bound)
                => /\ ~c.executed
                   /\ c.phase = "done" => IsErrorPayload(c.response)

\* C9: for sync_ask_for_approval with a numeric value v and the identity guard
\* not failing, beforeTool returns the canned approval exactly when v <= 10 and
\* returns nothing when v > 10.
C9_AutoApprovalAtMostTen ==
    \A s \in Sessions :
        LET c == call[s]
        IN  (c.phase # "none" /\ c.tool.name = "sync_ask_for_approval"
                /\ IsNum(Arg(c.given, "value")) /\ c.guard # "failed")
                => /\ (c.result = ApprovedWithoutManager) <=> (c.given["value"].num <= 10)
                   /\ c.given["value"].num > 10 => c.result = Undefined
                   /\ c.result # Undefined => ~c.executed

\* C9 witness: value 10 was answered by beforeTool, and the tool did not run.
C9_Witness ==
    \E s \in Live :
        LET c == call[s]
        IN  /\ c.phase = "done"
            /\ c.tool.name = "sync_ask_for_approval"
            /\ Arg(c.given, "value") = Num(10)
            /\ c.response = ApprovedWithoutManager
            /\ ~c.executed

\* C10: a discount-approval request with value > 10 is not
\* short-circuited, and the tool function that runs rejects it, so that no such
\* request ends with status 'approved' or 'ok'.
C10_AboveTenNeverApproved ==
    \A s \in Sessions :
        LET c == call[s]
        IN  (DiscountRequest(c) /\ c.given["value"].num > 10)
                => /\ c.guard # "failed" => c.result = Undefined
                   /\ c.phase \in {"ran", "done"} =>
                         ~("status" \in DOMAIN c.response
                              /\ c.response.status \in {"approved", "ok"})

\* C11: a call of the registered syncAskForApproval with a value of at most 10,
\* or of the registered modifyCart whose arguments flag items both added and
\* removed, is answered by beforeTool with the canned result and the
\* underlying function is not run.
C11_RegisteredToolsShortCircuit ==
    \A s \in Sessions :
        LET c == call[s]
        IN  (c.phase # "none" /\ c.tool \in RegisteredTools /\ c.guard # "failed"
                /\ \/ c.tool.name = "syncAskForApproval"
                         /\ IsNum(Arg(c.given, "value")) /\ c.given["value"].num <= 10
                   \/ c.tool.name = "modifyCart" /\ BothCartFlags(c.given))
                => /\ ~c.executed
                   /\ c.result = IF c.tool.name = "modifyCart"
                                 THEN CartConfirmation
                                 ELSE ApprovedWithoutManager

\* A dispatch of the discount-approval tool with customer_id "123" and value 5.
ApprovalOfFiveFor123(c) ==
    /\ c.phase # "none"
    /\ c.tool.name = "sync_ask_for_approval"
    /\ Arg(c.given, "customer_id") = Str(<<"1", "2", "3">>)
    /\ Arg(c.given, "value") = Num(5)

\* C12: in a session that starts with an empty state, beforeAgent binds a
\* profile with customer_id "123"; a following sync_ask_for_approval call with
\* customer_id "123" and value 5 passes the guard, is answered with status
\* "approved" without the tool running, and afterTool takes the apply-discount
\* branch on that result.
C12_EndToEnd ==
    /\ [][\A s \in Sessions :
             (state[s] = EmptyState /\ BeforeAgent(s))
                 => BoundCustomerId(state'[s]) = Str(<<"1", "2", "3">>)]_vars
    /\ [](\A s \in Sessions :
             LET c == call[s]
             IN  (Has(state[s], "customer_profile") /\ ApprovalOfFiveFor123(c))
                     => /\ c.guard = "passed"
                        /\ "status" \in DOMAIN c.result /\ c.result.status = "approved"
                        /\ ~c.executed
                        /\ c.phase = "done" => (c.applied /\ c.response = c.result))

\* C12 witness: the scenario has run to its end.
C12_Witness ==
    \E s \in Live :
        LET c == call[s]
        IN  /\ BoundCustomerId(state[s]) = Str(<<"1", "2", "3">>)
            /\ ApprovalOfFiveFor123(c)
            /\ c.phase = "done"
            /\ c.applied
            /\ ~c.executed
            /\ c.response.status = "approved"

\* y is x with every string leaf in lower case and nothing else changed: the
\* same map keys, the same list lengths and order, the same other scalars.
RECURSIVE LowercasedLeaves(_, _)
LowercasedLeaves(x, y) ==
    IF IsMap(x)
    THEN /\ IsMap(y)
         /\ DOMAIN y.map = DOMAIN x.map
         /\ \A k \in DOMAIN x.map : LowercasedLeaves(x.map[k], y.map[k])
    ELSE IF IsList(x)
         THEN /\ IsList(y)
              /\ Len(y.list) = Len(x.list)
              /\ \A i \in 1..Len(x.list) : LowercasedLeaves(x.list[i], y.list[i])
    ELSE IF IsStr(x)
         THEN y = Str(toLowerCase(x.str))
    ELSE y = x

\* C13: lowercaseValue keeps the shape of every argument tree (same map keys,
\* list lengths and order, string leaves in lower case, other scalars as they
\* were), and a second call changes nothing.
C13_NormalizeKeepsShape ==
    /\ norm.count >= 1 => LowercasedLeaves(norm.prev, norm.output)
    /\ norm.count >= 2 => norm.output = norm.prev

\* C14: whatever beforeTool returns, the caller's args object has afterwards
\* exactly the keys it had, with every string leaf in lower case; the guard
\* compares the lowercased customer_id and the tool runs on the lowercased
\* arguments.
C14_ArgsNormalizedInPlace ==
    \A s \in Sessions :
        LET c == call[s]
            given == Arg(c.given, "customer_id")
            bound == BoundCustomerId(state[s])
        IN  c.phase # "none"
                => /\ DOMAIN c.args = DOMAIN c.given
                   /\ \A k \in DOMAIN c.given \cap DOMAIN c.args :
                         LowercasedLeaves(c.given[k], c.args[k])
                   /\ (IsStr(given) /\ IsStr(bound))
                         => /\ IsErrorPayload(c.result) <=> toLowerCase(given.str) # bound.str
                            /\ IsErrorPayload(c.result)
                                  => Names(c.result.error, toLowerCase(given.str))
                   /\ c.executed => c.response = Execute(c.tool, lowercaseValue(Map(c.given)).map)

\* C15: a bound customer_profile never changes, whatever callback runs, and
\* the only step that binds one is beforeAgent on a session without a
\* profile, which binds the default record (customer_id "123").
C15_ProfileBoundOnce ==
    [][\A s \in Sessions :
          /\ Has(state[s], "customer_profile")
                => /\ Has(state'[s], "customer_profile")
                   /\ state'[s]["customer_profile"] = state[s]["customer_profile"]
                   /\ BoundCustomerId(state'[s]) = BoundCustomerId(state[s])
          /\ (~Has(state[s], "customer_profile") /\ Has(state'[s], "customer_profile"))
                => /\ BeforeAgent(s)
                   /\ BoundCustomerId(state'[s]) = Str(<<"1", "2", "3">>)]_vars

\* C15 witness: with a profile bound, the rate limiter has reset its window
\* after a sleep and a tool dispatch has run to its end.
C15_Witness ==
    \E s \in Live :
        /\ Has(state[s], "customer_profile")
        /\ rl[s].branch = "over"
        /\ rl[s].delay > 0
        /\ pc[s] = "idle"
        /\ call[s].phase = "done"
        /\ call[s].executed

\* The stored profile is the JSON text of a record with customer_id "123".
BoundToDefault(st) ==
    /\ Has(st, "customer_profile")
    /\ "json" \in DOMAIN st["customer_profile"]
    /\ BoundCustomerId(st) = Str(<<"1", "2", "3">>)

\* st is before with customer_profile added and nothing else changed.
OnlyProfileAdded(before, st) ==
    /\ DOMAIN st = DOMAIN before \cup {"customer_profile"}
    /\ \A k \in DOMAIN before : st[k] = before[k]

\* C16: after beforeAgent the session has a profile that deserializes to a
\* record with a customer_id; it is the default customer (customer_id "123")
\* if none was bound before; and a second beforeAgent leaves the state as the
\* first left it.
C16_AlwaysBoundRecord ==
    \A s \in Sessions :
        LET b == boot[s]
        IN  /\ b.turns >= 1
                => /\ IsStr(BoundCustomerId(state[s]))
                   /\ ~Has(b.input, "customer_profile")
                         => (BoundToDefault(state[s]) /\ OnlyProfileAdded(b.input, state[s]))
            /\ b.turns >= 2 => state[s] = b.once

\* C16 as amended: after beforeAgent the session has a customer_profile; it is
\* the default customer (customer_id "123") if none was bound before, and the
\* profile bound before, left as it was, otherwise; a second beforeAgent
\* leaves the state as the first left it.
C16_BoundAfterBootstrap ==
    \A s \in Sessions :
        LET b == boot[s]
        IN  /\ b.turns >= 1
                => /\ Has(state[s], "customer_profile")
                   /\ ~Has(b.input, "customer_profile")
                         => (BoundToDefault(state[s]) /\ OnlyProfileAdded(b.input, state[s]))
                   /\ Has(b.input, "customer_profile") => state[s] = b.input
            /\ b.turns >= 2 => state[s] = b.once

\* C16 witness: beforeAgent has run twice on a session that had a rate window
\* and no profile.
C16_Witness ==
    \E s \in Live :
        /\ boot[s].turns = 2
        /\ ~Has(boot[s].input, "customer_profile")
        /\ Has(boot[s].input, "request_count")
        /\ BoundToDefault(state[s])

\* The kind of a guard error, read off the text it starts with.
ErrorKind(err) ==
    CASE err[1] = "No customer profile selected. Please select a profile." -> "NoProfile"
      [] err[1] = "Customer profile is empty." -> "Empty"
      [] err[1] = "Customer profile couldn't be parsed. Please reload the customer data."
            -> "Parse"
      [] err[1] = "You cannot use the tool with customer_id " -> "Mismatch"
      [] OTHER -> "Other"

\* The stored customer_profile is the JSON text of a record.
Deserializes(st) ==
    /\ Has(st, "customer_profile")
    /\ "json" \in DOMAIN st["customer_profile"]
    /\ st["customer_profile"].json # Null

\* The stored customer_profile is the empty string.
StoredEmpty(st) ==
    Has(st, "customer_profile") /\ st["customer_profile"] = RawText(EmptyString)

\* A dispatch whose arguments carry customer_id and whose guard failed.
GuardFailed(c) ==
    c.phase # "none" /\ "customer_id" \in DOMAIN c.given /\ c.guard = "failed"

C18_NoIdNoResult ==
    \A s \in Sessions :
        LET c == call[s]
        IN  (c.phase # "none" /\ "customer_id" \notin DOMAIN c.given
                /\ c.tool.name \notin {"sync_ask_for_approval", "modify_cart"})
                => /\ c.result = Undefined
                   /\ c.guard = "none"
                   /\ c.phase \in {"ran", "done"} => c.executed

\* C18 witness: such a call has run its tool in a session whose stored
\* profile cannot be parsed.
C18_Witness ==
    \E s \in Live :
        LET c == call[s]
        IN  /\ c.phase = "done"
            /\ "customer_id" \notin DOMAIN c.given
            /\ c.tool.name = "approve_discount"
            /\ Has(state[s], "customer_profile")
            /\ ~Deserializes(state[s])
            /\ ~StoredEmpty(state[s])
            /\ c.executed

\* A dispatch of modify_cart whose guard did not fail.
CartCall(c) == c.phase # "none" /\ c.tool.name = "modify_cart" /\ c.guard # "failed"

\* Both flags of the incoming arguments are true.
FlaggedAddedAndRemoved(args) ==
    /\ "items_added" \in DOMAIN args /\ args["items_added"] = [bool |-> TRUE]
    /\ "items_removed" \in DOMAIN args /\ args["items_removed"] = [bool |-> TRUE]

\* C19: for modify_cart with the guard not failing, beforeTool returns the
\* canned confirmation exactly when the incoming arguments have items_added =
\* true and items_removed = true; otherwise it returns nothing and the real
\* modify runs.
C19_CartReentryShortCircuit ==
    \A s \in Sessions :
        LET c == call[s]
        IN  CartCall(c)
                => IF FlaggedAddedAndRemoved(c.given)
                   THEN /\ c.result = [result |-> "I have added and removed the requested items."]
                        /\ ~c.executed
                   ELSE /\ c.result = Undefined
                        /\ c.phase \in {"ran", "done"}
                              => (c.executed /\ c.response = modifyCart(c.args))

\* C19 witness: a flagged modify_cart call was answered by beforeTool.
C19_Witness ==
    \E s \in Live :
        LET c == call[s]
        IN  /\ CartCall(c)
            /\ FlaggedAddedAndRemoved(c.given)
            /\ c.phase = "done"
            /\ "result" \in DOMAIN c.response
            /\ ~c.executed

\* C20: the afterTool step changes neither the session state (timer_start,
\* request_count, customer_profile) nor the response: what the model gets is
\* what the tool returned, or what beforeTool returned in its place.
C20_AfterToolFrame ==
    [][\A s \in Sessions :
          AfterTool(s)
              => /\ state' = state
                 /\ call'[s].response = call[s].response
                 /\ call'[s].response # Undefined
                 /\ call'[s].response = IF call[s].executed
                                        THEN Execute(call[s].tool, call[s].args)
                                        ELSE call[s].result]_vars

\* C20 witness: afterTool has run on the 'ok' response of approve_discount, in
\* a session with a rate window and a profile.
C20_Witness ==
    \E s \in Live :
        LET c == call[s]
        IN  /\ c.phase = "done"
            /\ c.tool.name = "approve_discount"
            /\ c.executed
            /\ c.response = [status |-> "ok"]
            /\ c.applied
            /\ {"timer_start", "request_count", "customer_profile"} \subseteq DOMAIN state[s]

\* ------------------------------------------------------ two-session claims

Others(s) == Sessions \ {s}

Untouched(t) == state'[t] = state[t] /\ pc'[t] = pc[t] /\ rl'[t] = rl[t]

\* A step of one session's rateLimitCallback: the call, or the resumption
\* after the await.
OwnStep(s) ==
    /\ \A req \in Requests :
          RateLimitCall(s, req)
              => /\ \A t \in Others(s) : Untouched(t)
                 /\ state'[s] = AloneCall(state[s], now, req)
                 /\ ArrivalRank(s) <= RPM_QUOTA
                        => (pc'[s] = "idle" /\ rl'[s].ret = Undefined)
    /\ Wake(s)
          => /\ \A t \in Others(s) : Untouched(t)
             /\ state'[s] = ResetWindow(state[s], now)

\* While a session is suspended, a call of the other session can start.
OtherSessionNotBlocked ==
    \A s \in Sessions, t \in Sessions :
        (s # t /\ pc[s] = "sleeping" /\ pc[t] = "idle" /\ now <= horizon)
            => \A req \in Requests : ENABLED RateLimitCall(t, req)

\* C21: a step of one session's rateLimitCallback leaves the other session's
\* timer_start, request_count and suspension as they are, and what it makes
\* of its own state is what it makes of it alone; while a session is
\* suspended a call of the other session can start, and within its own quota
\* it returns at once.
C21_SessionsIndependent ==
    /\ []OtherSessionNotBlocked
    /\ [][\A s \in Sessions : OwnStep(s)]_vars

\* C21 witness: a session is suspended over quota, and the other has since
\* opened its window and had a second request admitted within quota.
C21_Witness ==
    \E s \in Sessions, t \in Sessions :
        /\ s # t
        /\ pc[s] = "sleeping"
        /\ RequestCount(s) = RPM_QUOTA
        /\ pc[t] = "idle"
        /\ rl[t].branch = "within"
        /\ Has(state[t], "timer_start") /\ TimerStart(t) > rl[s].start
        /\ RequestCount(t) = 2

\* ---------------------------------------------------- request rewrite claims

SingleSpace == <<" ">>

IsEmptyText(part) == "text" \in DOMAIN part /\ part.text = EmptyString

\* Part by part: an empty text has become a single space, and everything else
\* of the request is as it was.
OnlyEmptyTextRewritten(before, after) ==
    /\ DOMAIN after = DOMAIN before
    /\ \A k \in DOMAIN before \ {"contents"} : after[k] = before[k]
    /\ Len(after.contents) = Len(before.contents)
    /\ \A i \in DOMAIN before.contents :
          LET b == before.contents[i]
              a == after.contents[i]
          IN  /\ DOMAIN a = DOMAIN b
              /\ \A k \in DOMAIN b \ {"parts"} : a[k] = b[k]
              /\ "parts" \in DOMAIN b =>
                    /\ Len(a.parts) = Len(b.parts)
                    /\ \A j \in DOMAIN b.parts :
                          /\ DOMAIN a.parts[j] = DOMAIN b.parts[j]
                          /\ \A k \in DOMAIN b.parts[j] :
                                a.parts[j][k] = IF k = "text" /\ IsEmptyText(b.parts[j])
                                                THEN SingleSpace
                                                ELSE b.parts[j][k]

\* C22: in each quota state (first call of the session, within quota, over
\* quota with or without a suspension) a rateLimitCallback call on a request
\* with contents leaves the request with every empty text part rewritten to a
\* single space and nothing else modified, and it does so by the time it
\* returns or suspends; the resumption after the await leaves the request alone.
C22_EmptyTextRewritten ==
    [][\A s \in Sessions :
          /\ \A req \in Requests :
                (RateLimitCall(s, req) /\ ~LacksContents(req))
                    => /\ rl'[s].branch \in {"first", "within", "over"}
                       /\ OnlyEmptyTextRewritten(req, rl'[s].req)
          /\ Wake(s) => rl'[s].req = rl[s].req]_vars

\* C22 witness: an over-quota call is suspended, and the empty text part of
\* its request already reads " " while the other parts are as they were sent.
C22_Witness ==
    \E s \in Live :
        /\ pc[s] = "sleeping"
        /\ rl[s].branch = "over"
        /\ rl[s].req.contents[2].parts[1].text = SingleSpace
        /\ RequestWithParts.contents[2].parts[1].text = EmptyString
        /\ rl[s].req.contents[2].parts[2] = RequestWithParts.contents[2].parts[2]
        /\ rl[s].req.contents[2].parts[3] = RequestWithParts.contents[2].parts[3]

\* ------------------------------------------------------ window reset claims

\* The second of the window at which a delay is no longer positive.
WINDOW_OVER_SECS == RATE_LIMIT_SECS + 1

\* C23: a call that finds request_count = RPM_QUOTA and at least 61 seconds
\* elapsed since timer_start returns without a suspension and leaves
\* timer_start = now, request_count = 1; a call that finds request_count below
\* RPM_QUOTA leaves timer_start as it is and adds one to request_count,
\* whatever the time elapsed.
C23_ExpiredWindowResetsAtOnce ==
    [][\A s \in Sessions, req \in Requests :
          (RateLimitCall(s, req) /\ ~LacksContents(req) /\ Has(state[s], "timer_start"))
              => /\ (RequestCount(s) = RPM_QUOTA /\ now - TimerStart(s) >= WINDOW_OVER_SECS)
                        => /\ pc'[s] = "idle"
                           /\ rl'[s].ret = Undefined
                           /\ TimerStart(s)' = now
                           /\ RequestCount(s)' = 1
                 /\ RequestCount(s) < RPM_QUOTA
                        => /\ pc'[s] = "idle"
                           /\ TimerStart(s)' = TimerStart(s)
                           /\ RequestCount(s)' = RequestCount(s) + 1]_vars

\* C23 witness: an over-quota call came exactly 61 seconds after timer_start
\* (delay 0) and has returned with the window reset at the clock value of the
\* call, which no timer had to wait for.
C23_Witness ==
    \E s \in Live :
        /\ pc[s] = "idle"
        /\ rl[s].branch = "over"
        /\ rl[s].delay = 0
        /\ rl[s].wakeAt = 0
        /\ TimerStart(s) = now
        /\ RequestCount(s) = 1

\* ------------------------------------------------------------ QR code claims

QrCall(c) == c.phase \in {"ran", "done"} /\ c.executed /\ c.tool.execute = "generateQrCode"

\* The largest amount of the guardrail: 20 for 'fixed', 10 for every other
\* discountType.
QrLimit(discountType) ==
    IF discountType = Str(Fixed) THEN QR_FIXED_MAX ELSE QR_PERCENTAGE_MAX

IsQrSuccess(response) == "status" \in DOMAIN response /\ response.status = "success"

IsQrError(response) == "string" \in DOMAIN response /\ ~("qr_code_data" \in DOMAIN response)

\* C24: whatever the discountType, generateQrCode returns a success payload
\* only for a discountValue of at most 20 ('fixed') or at most 10 (every other
\* discountType), and an error string without QR code data for a larger one.
C24_QrWithinGuardrail ==
    \A s \in Sessions :
        QrCall(call[s]) =>
            LET c == call[s]
                within == NumberLeq(Arg(c.args, "discountValue"),
                                    QrLimit(Arg(c.args, "discountType")))
            IN  /\ IsQrSuccess(c.response) => within
                /\ ~within => IsQrError(c.response)

\* A step of session s that opens a window after another: the reset of an
\* over-quota call, at once or at the resumption after the await.
OpensNextWindow(s) ==
    /\ Has(state[s], "timer_start")
    /\ \/ Wake(s)
       \/ \E req \in Requests :
             RateLimitCall(s, req) /\ rl'[s].branch = "over" /\ pc'[s] = "idle"

\* C25: the request that opens a window after another is admitted at least 61
\* seconds after the request that opened the window before it, and a window
\* never changes otherwise: no more than RPM_QUOTA requests are admitted
\* between the admission that set timer_start and the next such admission,
\* which comes after timer_start + 60.
C25_WindowOpeningsApart ==
    /\ [](\A s \in Sessions :
            Has(state[s], "timer_start") => rl[s].admitted \in 1..RPM_QUOTA)
    /\ [][\A s \in Sessions :
            /\ OpensNextWindow(s)
                  => /\ TimerStart(s)' = now
                     /\ RequestCount(s)' = 1
                     /\ now >= TimerStart(s) + WINDOW_OVER_SECS
            /\ (Has(state[s], "timer_start") /\ ~OpensNextWindow(s))
                  => TimerStart(s)' = TimerStart(s)]_vars

\* C25 witness: the eleventh request came in the last second of a window
\* (elapsed 60, delay 1) and opened the next window 61 seconds after the first.
C25_Witness ==
    \E s \in Live :
        /\ pc[s] = "idle"
        /\ rl[s].branch = "over"
        /\ rl[s].delay = 1
        /\ rl[s].admitted = 1
        /\ TimerStart(s) = now
        /\ now >= EpochStart + WINDOW_OVER_SECS

\* --------------------------------------------------- overlapping-call claims

\* A call of the session began while an earlier call was inside its await.
Overlapped(s) == rl[s].late.phase # "none"

\* C26: as long as the calls of a session come one at a time, the stored
\* request_count is the number of requests admitted since and including the
\* request that opened the window; the two differ only after a call has begun
\* while another call of the session was suspended.
C26_CountIsAdmitted ==
    \A s \in Sessions :
        (Has(state[s], "request_count") /\ ~Overlapped(s))
            => RequestCount(s) = rl[s].admitted

\* C26 witness: two calls of a session overlapped across the over-quota
\* suspension, both have returned, the window the first of them opened holds
\* both admissions, and request_count is 1.
C26_Witness ==
    \E s \in Live :
        /\ pc[s] = "idle"
        /\ rl[s].branch = "over"
        /\ rl[s].late.phase = "done"
        /\ rl[s].admitted = 2
        /\ RequestCount(s) = 1

\* ------------------------------------------------------- skipped-call claims

\* C27: a rateLimitCallback call without a request, or with a request without
\* contents, returns undefined at once and leaves the session state as it
\* found it: it opens no window, it is not counted and it is not suspended,
\* also when the window's quota is used up.
C27_NoContentsSkipsLimiter ==
    [][\A s \in Sessions, req \in {RequestMissing, RequestNoContents} :
          RateLimitCall(s, req)
              => /\ state'[s] = state[s]
                 /\ Has(state'[s], "timer_start") = Has(state[s], "timer_start")
                 /\ pc'[s] = "idle"
                 /\ rl'[s].branch = "skip"
                 /\ rl'[s].ret = Undefined
                 /\ rl'[s].req = req
                 /\ rl'[s].admitted = rl[s].admitted]_vars

\* C27 witness: a request without contents came when the quota of the window
\* was used up and the window had not run out, and it has returned with the
\* window as it was.
C27_Witness ==
    \E s \in Live :
        /\ pc[s] = "idle"
        /\ rl[s].branch = "skip"
        /\ rl[s].req = RequestNoContents
        /\ Has(state[s], "timer_start")
        /\ RequestCount(s) = RPM_QUOTA
        /\ now - TimerStart(s) < RATE_LIMIT_SECS

====
